---- MODULE Spec2Model ----
(***************************************************************************)
(* ProtobufReader (unified_planning/grpc/proto_reader.py): the converter   *)
(* from protobuf messages to the planning model.                           *)
(*                                                                         *)
(* Every Python value is a record with a field `tag`; None is the record   *)
(* tagged "None" and a raised exception is the record tagged "Raise".      *)
(* Strings that the code parses (type names) are sequences of characters;  *)
(* strings that the code only compares (symbols, names) are TLA+ strings.  *)
(***************************************************************************)
EXTENDS Integers, Sequences, FiniteSets, TLC

VARIABLES
    call,            \* single-handler runs: the handler call made, None before
    ret,             \* single-handler runs: what the call returned
    current_action,  \* ProtobufReader.current_action, one per converter instance
    conv,            \* the converter instance each thread calls convert() on
    message,         \* per thread: the message of its current (or last) convert()
    pc,              \* per thread: position inside _convert_action
    action,          \* per thread: the local `action` of _convert_action
    idx,             \* per thread: position in msg.conditions / msg.effects
    out,             \* per thread: what its last finished convert() returned
    prev,            \* per thread: what convert() returned for the same message
                     \* the time before, None if the message before was another
    calls,           \* per thread: number of convert() calls made
    res,             \* per thread: the symbol atoms resolved by its last step
    att,             \* per thread: the condition / effect its last step attached
    api              \* which timed attach methods each action class provides

vars == <<call, ret, current_action, conv, message, pc, action, idx, out, prev, calls,
          res, att, api>>

---------------------------------------------------------------------------
(* Python values                                                           *)

None == [tag |-> "None"]

Raise(e) == [tag |-> "Raise", exc |-> e]

IsRaise(v) == v.tag = "Raise"

PyInt(n) == [tag |-> "int", v |-> n]

---------------------------------------------------------------------------
(* str methods, on sequences of characters                                 *)

RECURSIVE find(_, _, _)
\* 1-based position of the first occurrence of sub in s at or after i, 0 if none
find(s, sub, i) ==
    IF i + Len(sub) - 1 > Len(s) THEN 0
    ELSE IF SubSeq(s, i, i + Len(sub) - 1) = sub THEN i
    ELSE find(s, sub, i + 1)

RECURSIVE split(_, _)
\* s.split(sep)
split(s, sep) ==
    LET i == find(s, sep, 1)
    IN  IF i = 0 THEN <<s>>
        ELSE <<SubSeq(s, 1, i - 1)>> \o split(SubSeq(s, i + Len(sep), Len(s)), sep)

\* s.startswith(pre)
startswith(s, pre) == Len(s) >= Len(pre) /\ SubSeq(s, 1, Len(pre)) = pre

\* sub in s
contains(s, sub) == find(s, sub, 1) # 0

Digits == <<"0", "1", "2", "3", "4", "5", "6", "7", "8", "9">>

IsDigit(c) == \E d \in 1..10 : Digits[d] = c

DigitVal(c) == (CHOOSE d \in 1..10 : Digits[d] = c) - 1

RECURSIVE DigitsValue(_)
DigitsValue(ds) ==
    IF ds = <<>> THEN 0
    ELSE 10 * DigitsValue(SubSeq(ds, 1, Len(ds) - 1)) + DigitVal(ds[Len(ds)])

\* int(tok): an optional sign and decimal digits, ValueError otherwise
int(tok) ==
    LET signed == tok # <<>> /\ tok[1] \in {"-", "+"}
        body   == IF signed THEN Tail(tok) ELSE tok
    IN  IF body = <<>> \/ \E i \in 1..Len(body) : ~IsDigit(body[i])
        THEN Raise("ValueError")
        ELSE PyInt(IF signed /\ tok[1] = "-" THEN -DigitsValue(body)
                   ELSE DigitsValue(body))

RECURSIVE gcd(_, _)
gcd(a, b) == IF b = 0 THEN a ELSE gcd(b, a % b)

Abs(n) == IF n < 0 THEN -n ELSE n

\* fractions.Fraction(tok) for "n" and "n/d": the value in lowest terms
Fraction(tok) ==
    LET parts == split(tok, <<"/">>)
        n     == int(parts[1])
        d     == IF Len(parts) = 2 THEN int(parts[2]) ELSE PyInt(1)
    IN  IF Len(parts) > 2 \/ IsRaise(n) \/ IsRaise(d) THEN Raise("ValueError")
        ELSE IF d.v = 0 THEN Raise("ZeroDivisionError")
        ELSE IF d.v < 0 THEN Raise("ValueError")
        ELSE LET g == gcd(Abs(n.v), d.v)
             IN  [tag |-> "Fraction", num |-> n.v \div g, den |-> d.v \div g]

---------------------------------------------------------------------------
(* The types of unified_planning.shortcuts, as the values their            *)
(* constructors return                                                     *)

BoolType == [tag |-> "BoolType"]

IntType(lb, ub) == [tag |-> "IntType", lower_bound |-> lb, upper_bound |-> ub]

RealType(lb, ub) == [tag |-> "RealType", lower_bound |-> lb, upper_bound |-> ub]

UserType(name, parent) == [tag |-> "UserType", name |-> name, parent |-> parent]

S_bool == <<"b", "o", "o", "l">>
S_int == <<"i", "n", "t">>
S_float == <<"f", "l", "o", "a", "t">>
S_real == <<"r", "e", "a", "l">>
S_integer_open == <<"i", "n", "t", "e", "g", "e", "r", "[">>
S_real_open == <<"r", "e", "a", "l", "[">>
S_minus_inf == <<"-", "i", "n", "f">>
S_inf == <<"i", "n", "f">>
S_comma_space == <<",", " ">>

\* lines 178-184 and 187-193: tmp is the text between "[" and "]" split on ", ";
\* the first bound is decoded when it is not "-inf", and the second one is looked
\* at in the elif only, that is only when the first one is "-inf"
DecodeBounds(type_name, number) ==
    LET tmp == split(split(split(type_name, <<"[">>)[2], <<"]">>)[1], S_comma_space)
        parse(tok) == IF number = "int" THEN int(tok) ELSE Fraction(tok)
    IN  IF tmp[1] # S_minus_inf
        THEN [lb |-> parse(tmp[1]), ub |-> None]
        ELSE IF Len(tmp) < 2 THEN [lb |-> None, ub |-> Raise("IndexError")]
        ELSE IF tmp[2] # S_inf
        THEN [lb |-> None, ub |-> parse(tmp[2])]
        ELSE [lb |-> None, ub |-> None]

_convert_type_declaration(msg) ==
    IF msg.type_name = S_bool THEN BoolType
    ELSE IF startswith(msg.type_name, S_integer_open)
    THEN LET b == DecodeBounds(msg.type_name, "int")
         IN  IF IsRaise(b.lb) THEN b.lb
             ELSE IF IsRaise(b.ub) THEN b.ub
             ELSE IntType(b.lb, b.ub)
    ELSE IF startswith(msg.type_name, S_real_open)
    THEN LET b == DecodeBounds(msg.type_name, "Fraction")
         IN  IF IsRaise(b.lb) THEN b.lb
             ELSE IF IsRaise(b.ub) THEN b.ub
             ELSE RealType(b.lb, b.ub)
    ELSE UserType(msg.type_name, UserType(msg.parent_type, None))

S_loc == <<"l", "o", "c">>
S_real_0_5 == <<"r", "e", "a", "l", "[", "0", ",", "5", "]">>

\* s.strip() of blanks
RECURSIVE strip(_)
strip(s) ==
    IF s # <<>> /\ s[1] = " " THEN strip(Tail(s))
    ELSE IF s # <<>> /\ s[Len(s)] = " " THEN strip(SubSeq(s, 1, Len(s) - 1))
    ELSE s

\* float(tok) of an integer literal, blanks around it allowed
float(tok) ==
    LET n == int(strip(tok))
    IN  IF IsRaise(n) THEN n ELSE [tag |-> "float", v |-> n.v]

\* lines 41-54
convert_type_str(s) ==
    IF s = S_bool THEN BoolType
    ELSE IF s = S_int THEN IntType(None, None)
    ELSE IF s = S_float THEN RealType(None, None)
    ELSE IF contains(s, S_real)
    THEN LET first == split(s, <<"[">>)
             second == split(s, <<",">>)
         IN  IF Len(first) < 2 \/ Len(second) < 2 THEN Raise("IndexError")
             ELSE LET a == float(split(first[2], <<",">>)[1])
                      b == float(split(second[2], <<"]">>)[1])
                  IN  IF IsRaise(a) THEN a
                      ELSE IF IsRaise(b) THEN b
                      ELSE RealType(a, b)
    ELSE UserType(s, None)

---------------------------------------------------------------------------
(* The model classes the converter builds, as the values their             *)
(* constructors return                                                     *)

ActionParameter(name, type) == [tag |-> "ActionParameter", name |-> name, type |-> type]

Object(name, type) == [tag |-> "Object", name |-> name, type |-> type]

Fluent(name, value_type, sig) ==
    [tag |-> "Fluent", name |-> name, value_type |-> value_type, signature |-> sig]

\* expression_manager.create_node(node_type, args, payload)
create_node(node_type, args, payload) ==
    [tag |-> "FNode", node_type |-> node_type, args |-> args, payload |-> payload]

\* expression_manager.Int / Real / Bool / ParameterExp (Int and Real are taken)
em_Int(value) == create_node("INT_CONSTANT", <<>>, PyInt(value))

em_Real(value) == create_node("REAL_CONSTANT", <<>>, value)

em_Bool(value) == create_node("BOOL_CONSTANT", <<>>, [tag |-> "bool", v |-> value])

ParameterExp(param) == create_node("PARAM_EXP", <<>>, param)

\* Problem.has_object / object / has_fluent / fluent of the template `problem`
has_object(problem, name) == \E o \in problem.objects : o.name = name

object(problem, name) == CHOOSE o \in problem.objects : o.name = name

has_fluent(problem, name) == \E f \in problem.fluents : f.name = name

fluent(problem, name) ==
    IF has_fluent(problem, name)
    THEN CHOOSE f \in problem.fluents : f.name = name
    ELSE Raise("UnknownSymbol")

\* OrderedDict: (key, value) items with distinct keys, in insertion order
OrderedDict(items) == [tag |-> "OrderedDict", items |-> items]

setitem_in_front(d, key, value) ==
    OrderedDict(<<[key |-> key, value |-> value]>>
                \o SelectSeq(d.items, LAMBDA it : it.key # key))

\* d[key] = value on an OrderedDict: a known key keeps its place
setitem(d, key, value) ==
    IF \E i \in 1..Len(d.items) : d.items[i].key = key
    THEN OrderedDict([i \in 1..Len(d.items) |->
                         IF d.items[i].key = key
                         THEN [key |-> key, value |-> value] ELSE d.items[i]])
    ELSE OrderedDict(Append(d.items, [key |-> key, value |-> value]))

\* Action.parameter(name): self._parameters[name], KeyError when absent
parameter(act, name) ==
    LET items == act.parameters.items
    IN  IF \E i \in 1..Len(items) : items[i].key = name
        THEN items[CHOOSE i \in 1..Len(items) : items[i].key = name].value
        ELSE Raise("KeyError")

\* DurativeAction(name, parameters) / InstantaneousAction(name, parameters)
NewAction(kind, name, parameters) ==
    [tag |-> "Action", kind |-> kind, name |-> name, parameters |-> parameters,
     duration |-> None, conditions |-> <<>>, effects |-> <<>>, cost |-> None]

DurativeAction(name, parameters) == NewAction("DurativeAction", name, parameters)

InstantaneousAction(name, parameters) ==
    NewAction("InstantaneousAction", name, parameters)

---------------------------------------------------------------------------
(* Messages                                                                *)

AtomNone == [field |-> "None"]
AtomInt(n) == [field |-> "int", int |-> n]
AtomReal(r) == [field |-> "real", real |-> r]
AtomBool(b) == [field |-> "boolean", boolean |-> b]
AtomSymbol(s) == [field |-> "symbol", symbol |-> s]

\* msg.atom.symbol: the empty string when the atom holds no symbol
SymbolField(atom) == IF atom.field = "symbol" THEN atom.symbol ELSE ""

Expression(kind, type, atom, list) ==
    [kind |-> kind, type |-> type, atom |-> atom, list |-> list]

---------------------------------------------------------------------------
(* _convert_parameter, lines 60-66                                         *)

_convert_parameter(msg) ==
    LET t == convert_type_str(msg.type)
    IN  IF IsRaise(t) THEN t ELSE ActionParameter(msg.name, t)

(* _convert_atom, lines 146-171; cur is self.current_action                *)

_convert_atom_parameter_first(cur, msg, problem) ==
    IF msg.field = "None" THEN None
    ELSE IF msg.field = "int" THEN em_Int(msg.int)
    ELSE IF msg.field = "real" THEN em_Real(msg.real)
    ELSE IF msg.field = "boolean" THEN em_Bool(msg.boolean)
    ELSE IF cur # None /\ ~IsRaise(parameter(cur, msg.symbol))
    THEN ParameterExp(parameter(cur, msg.symbol))
    ELSE IF has_object(problem, msg.symbol) THEN object(problem, msg.symbol)
    ELSE fluent(problem, msg.symbol)

_convert_atom(cur, msg, problem) ==
    IF msg.field = "None" THEN None
    ELSE IF msg.field = "int" THEN em_Int(msg.int)
    ELSE IF msg.field = "real" THEN em_Real(msg.real)
    ELSE IF msg.field = "boolean" THEN em_Bool(msg.boolean)
    ELSE LET value == msg.symbol
         IN  IF has_object(problem, value) THEN object(problem, value)
             ELSE IF cur # None
             THEN LET p == parameter(cur, value)
                  IN  IF IsRaise(p)                     \* except KeyError
                      THEN fluent(problem, value)
                      ELSE ParameterExp(p)
             ELSE fluent(problem, value)

(* _convert_expression, lines 86-144                                       *)

\* the first exception raised while the elements of a list were converted, in
\* order, or None
RECURSIVE FirstRaise(_)
FirstRaise(seq) ==
    IF seq = <<>> THEN None
    ELSE IF IsRaise(Head(seq)) THEN Head(seq)
    ELSE FirstRaise(Tail(seq))

RECURSIVE _convert_expression(_, _, _)
_convert_expression(cur, msg, problem) ==
    LET payload == _convert_atom(cur, msg.atom, problem)
        args    == [i \in 1..Len(msg.list) |->
                        _convert_expression(cur, msg.list[i], problem)]
    IN  IF IsRaise(payload) THEN payload
        ELSE IF FirstRaise(args) # None THEN FirstRaise(args)
        ELSE IF msg.kind = "CONSTANT"
        THEN IF msg.type = S_bool THEN create_node("BOOL_CONSTANT", args, payload)
             ELSE IF msg.type = S_int THEN create_node("INT_CONSTANT", args, payload)
             ELSE IF msg.type = S_real THEN create_node("REAL_CONSTANT", args, payload)
             ELSE None                                   \* falls to line 144
        ELSE IF msg.kind = "PARAMETER"
        THEN create_node("PARAM_EXP", args,
                         ActionParameter(SymbolField(msg.atom), UserType(msg.type, None)))
        ELSE IF msg.kind = "FLUENT_SYMBOL"
        THEN IF ~has_fluent(problem, SymbolField(msg.atom)) THEN Raise("AssertionError")
             ELSE create_node("FLUENT_EXP", args, payload)
        ELSE IF msg.kind = "FUNCTION_SYMBOL" THEN None
        ELSE IF msg.kind = "STATE_VARIABLE"
        THEN create_node("OBJECT_EXP", <<>>, payload)
        ELSE IF msg.kind = "FUNCTION_APPLICATION" THEN None
        ELSE None                                        \* line 144

---------------------------------------------------------------------------
(* _convert_effect, lines 283-310                                          *)

\* unified_planning.model.effect: the kinds, and the value `kind = 0` starts from
ASSIGN == PyInt(0)
INCREASE == PyInt(1)
DECREASE == PyInt(2)

\* Effect(fluent, value, condition, kind=ASSIGN)
Effect(fluent_exp, value_exp, condition, kind) ==
    [tag |-> "Effect", fluent |-> fluent_exp, value |-> value_exp,
     condition |-> condition, kind |-> kind]

EffectMsg(kind, fluent_msg, value_msg, has_condition, condition) ==
    [kind |-> kind, fluent |-> fluent_msg, value |-> value_msg,
     has_condition |-> has_condition, condition |-> condition]

_convert_effect(cur, msg, problem) ==
    LET kind == IF msg.kind = "ASSIGN" THEN ASSIGN
                ELSE IF msg.kind = "INCREASE" THEN INCREASE
                ELSE IF msg.kind = "DECREASE" THEN DECREASE
                ELSE PyInt(0)
        f == _convert_expression(cur, msg.fluent, problem)
        v == _convert_expression(cur, msg.value, problem)
    IN  IF IsRaise(f) THEN f
        ELSE IF IsRaise(v) THEN v
        ELSE IF msg.has_condition
        THEN LET c == _convert_expression(cur, msg.condition, problem)
             IN  IF IsRaise(c) THEN c ELSE Effect(f, v, c, kind)
        \* three positional arguments: the third parameter is the condition, as
        \* the call of lines 299-304 has it, and kind keeps its default
        ELSE Effect(f, v, kind, ASSIGN)

---------------------------------------------------------------------------
(* _convert_timepoint, _convert_timing, _convert_timed_interval,           *)
(* lines 312-348                                                           *)

TimepointKinds == {"GLOBAL_START", "GLOBAL_END", "START", "END"}

_convert_timepoint(msg) ==
    IF msg.kind \in TimepointKinds
    THEN [tag |-> "Timepoint", kind |-> msg.kind]
    ELSE None

_convert_timing(msg) ==
    [tag |-> "Timing", delay |-> msg.delay,
     timepoint |-> _convert_timepoint(msg.timepoint)]

_convert_timed_interval(msg) ==
    [tag |-> "TimeInterval",
     lower |-> _convert_timing(msg.lower), upper |-> _convert_timing(msg.upper),
     is_left_open |-> msg.is_left_open, is_right_open |-> msg.is_right_open]

TimingMsg(delay, kind) == [delay |-> delay, timepoint |-> [kind |-> kind]]

TimeIntervalMsg(lower, upper) ==
    [lower |-> lower, upper |-> upper, is_left_open |-> FALSE, is_right_open |-> FALSE]

\* an unset sub-message reads as the default instance of its type: every field
\* at its default, an enum at its first enumerator
DefaultTiming == TimingMsg(0, "GLOBAL_START")

DefaultTimeInterval == TimeIntervalMsg(DefaultTiming, DefaultTiming)

---------------------------------------------------------------------------
(* The Problem template every conversion is given, and the symbols used:   *)
(*   o  an object            x  an object, also used as a parameter name   *)
(*   f  a fluent             p  a fluent, also used as a parameter name    *)
(*   q  a parameter name     z  no name of the template                    *)

Template ==
    [tag |-> "Problem",
     objects |-> {Object("o", UserType(S_loc, None)), Object("x", UserType(S_loc, None))},
     fluents |-> {Fluent("f", BoolType, <<>>), Fluent("p", BoolType, <<>>)}]

Symbols == {"o", "x", "f", "p", "q", "z"}

\* what current_action holds: the action object, by its identity, with the
\* fields of it that _convert_atom reads
ActionRef(id, act) ==
    [tag |-> "ActionRef", id |-> id, name |-> act.name, kind |-> act.kind,
     parameters |-> act.parameters]

ParameterMsg(name, type) == [name |-> name, type |-> type]

RECURSIVE convert_parameters(_, _)
\* lines 243-247
convert_parameters(params, d) ==
    IF params = <<>> THEN d
    ELSE LET p == _convert_parameter(Head(params))
         IN  IF IsRaise(p) THEN p
             ELSE convert_parameters(Tail(params), setitem(d, Head(params).name, p))

---------------------------------------------------------------------------
(* Single-handler runs: one handler is called once on one message          *)

MaxBound == 11

MaxArgs == 1

RECURSIVE NatToChars(_)
NatToChars(n) ==
    IF n < 10 THEN <<Digits[n + 1]>>
    ELSE NatToChars(n \div 10) \o <<Digits[(n % 10) + 1]>>

\* str(n), as the writer prints a bound
IntToChars(n) == IF n < 0 THEN <<"-">> \o NatToChars(-n) ELSE NatToChars(n)

Bounds == {None} \cup {PyInt(n) : n \in -MaxBound..MaxBound}

LowerToken(b) == IF b = None THEN S_minus_inf ELSE IntToChars(b.v)

UpperToken(b) == IF b = None THEN S_inf ELSE IntToChars(b.v)

TypeDeclaration(type_name, parent_type) ==
    [type_name |-> type_name, parent_type |-> parent_type]

BoundedName(open, lo, hi) ==
    open \o LowerToken(lo) \o S_comma_space \o UpperToken(hi) \o <<"]">>

TypeCalls ==
    {[fn |-> "_convert_type_declaration", family |-> "integer", lo |-> lo, hi |-> hi,
      msg |-> TypeDeclaration(BoundedName(S_integer_open, lo, hi), <<>>)]
        : lo \in Bounds, hi \in Bounds}
    \cup
    {[fn |-> "_convert_type_declaration", family |-> "real", lo |-> lo, hi |-> hi,
      msg |-> TypeDeclaration(BoundedName(S_real_open, lo, hi), <<>>)]
        : lo \in Bounds, hi \in Bounds}
    \cup
    {[fn |-> "_convert_type_declaration", family |-> "other", lo |-> None, hi |-> None,
      msg |-> TypeDeclaration(n, <<>>)] : n \in {S_bool, S_loc}}

Atoms ==
    {AtomNone, AtomInt(3), AtomBool(TRUE),
     AtomReal([tag |-> "Fraction", num |-> 1, den |-> 2])}
    \cup {AtomSymbol(s) : s \in Symbols}

AtomCalls == {[fn |-> "_convert_atom", msg |-> a] : a \in Atoms}

ExpressionKinds ==
    {"CONSTANT", "PARAMETER", "FLUENT_SYMBOL", "FUNCTION_SYMBOL", "STATE_VARIABLE",
     "FUNCTION_APPLICATION"}

\* kind values no branch of _convert_expression names: the enum's zero and a
\* value a newer schema could send
OtherKinds == {"UNKNOWN", "KIND_99"}

Leaves ==
    {Expression(k, t, a, <<>>)
        : k \in ExpressionKinds \cup OtherKinds,
          t \in {S_bool, S_int, S_real, S_loc},
          a \in {AtomNone, AtomInt(3), AtomBool(TRUE),
                 AtomSymbol("o"), AtomSymbol("f"), AtomSymbol("p"), AtomSymbol("z")}}

ArgLists ==
    {<<>>} \cup
    {[i \in 1..n |-> Expression("STATE_VARIABLE", S_loc, AtomSymbol(s), <<>>)]
        : n \in 1..MaxArgs, s \in {"o", "z"}}

ExpressionCalls ==
    {[fn |-> "_convert_expression", msg |-> [e EXCEPT !.list = l]]
        : e \in Leaves, l \in ArgLists}

Var(s) == Expression("STATE_VARIABLE", S_loc, AtomSymbol(s), <<>>)

FluentSymbol(s) == Expression("FLUENT_SYMBOL", S_bool, AtomSymbol(s), <<>>)

Constant(n) == Expression("CONSTANT", S_int, AtomInt(n), <<>>)

EffectKinds == {"ASSIGN", "INCREASE", "DECREASE"}

EffectCalls ==
    {[fn |-> "_convert_effect", msg |-> EffectMsg(k, FluentSymbol(f), v, hc, Var("p"))]
        : k \in EffectKinds \cup {"KIND_99"}, f \in {"f", "z"},
          v \in {Constant(1), Var("o")}, hc \in BOOLEAN}

HandlerCalls == TypeCalls \cup AtomCalls \cup ExpressionCalls \cup EffectCalls

\* what current_action may hold when a handler is called
Scopes ==
    {None,
     ActionRef([thread |-> 1, call |-> 1],
               InstantaneousAction("move",
                   convert_parameters(<<ParameterMsg("p", S_loc), ParameterMsg("x", S_loc)>>,
                                      OrderedDict(<<>>)))),
     ActionRef([thread |-> 1, call |-> 1],
               InstantaneousAction("load",
                   convert_parameters(<<ParameterMsg("q", S_loc)>>, OrderedDict(<<>>))))}

Returned(v) == [tag |-> "Returned", value |-> v]

\* DurativeAction and InstantaneousAction are defined outside this file. Whether
\* a class has the method add_condition, or add_timed_effect, is "unknown" until
\* the method is first looked up on an object of the class; the lookup then
\* finds it ("yes") or raises AttributeError ("no"), and every later lookup on
\* an object of that class does the same.
ApiUnknown ==
    [k \in {"InstantaneousAction", "DurativeAction"} |->
        [add_condition |-> "unknown", add_timed_effect |-> "unknown"]]

hasattr(methods, kind, method) ==
    IF methods[kind][method] = "unknown" THEN BOOLEAN
    ELSE {methods[kind][method] = "yes"}

Known(methods, kind, method, has) ==
    [methods EXCEPT ![kind][method] = IF has THEN "yes" ELSE "no"]

Idle(threads) ==
    /\ message = [t \in threads |-> None]
    /\ pc = [t \in threads |-> "idle"]
    /\ action = [t \in threads |-> None]
    /\ idx = [t \in threads |-> 0]
    /\ out = [t \in threads |-> None]
    /\ prev = [t \in threads |-> None]
    /\ calls = [t \in threads |-> 0]
    /\ res = [t \in threads |-> [phase |-> "none", owner |-> None, log |-> <<>>]]
    /\ att = [t \in threads |-> None]

HandlerInit ==
    /\ call \in HandlerCalls
    /\ ret = None
    /\ conv = [t \in {1} |-> 1]
    /\ current_action \in [{1} -> Scopes]
    /\ api = ApiUnknown
    /\ Idle({1})

machine == <<current_action, conv, message, pc, action, idx, out, prev, calls, res,
             att, api>>

CallTypeDeclaration ==
    /\ ret = None /\ call.fn = "_convert_type_declaration"
    /\ ret' = Returned(_convert_type_declaration(call.msg))
    /\ UNCHANGED <<call, machine>>

CallAtom ==
    /\ ret = None /\ call.fn = "_convert_atom"
    /\ ret' = Returned(_convert_atom(current_action[1], call.msg, Template))
    /\ UNCHANGED <<call, machine>>

CallExpression ==
    /\ ret = None /\ call.fn = "_convert_expression"
    /\ ret' = Returned(_convert_expression(current_action[1], call.msg, Template))
    /\ UNCHANGED <<call, machine>>

CallEffect ==
    /\ ret = None /\ call.fn = "_convert_effect"
    /\ ret' = Returned(_convert_effect(current_action[1], call.msg, Template))
    /\ UNCHANGED <<call, machine>>

HandlerNext == CallTypeDeclaration \/ CallAtom \/ CallExpression \/ CallEffect

HandlerSpec == HandlerInit /\ [][HandlerNext]_vars

---------------------------------------------------------------------------
(* _convert_action, lines 238-281, step by step, and the handlers of the   *)
(* messages converted outside any action                                   *)

MaxCalls == 2

\* the handler of msg.duration: a duration is an interval of two expressions,
\* each rebuilt against the problem
_convert_duration(cur, m, problem) ==
    LET lower == _convert_expression(cur, m.lower, problem)
        upper == _convert_expression(cur, m.upper, problem)
    IN  IF IsRaise(lower) THEN lower
        ELSE IF IsRaise(upper) THEN upper
        ELSE [tag |-> "DurationInterval", lower |-> lower, upper |-> upper]

\* the methods of the action under construction
set_duration_constraint(act, d) == [act EXCEPT !.duration = d]

add_condition(act, interval, exp) ==
    [act EXCEPT !.conditions = Append(@, [interval |-> interval, condition |-> exp])]

add_precondition(act, exp) ==
    [act EXCEPT !.conditions = Append(@, [interval |-> None, condition |-> exp])]

add_timed_effect(act, timing, f, v) ==
    [act EXCEPT !.effects = Append(@, [timing |-> timing, fluent |-> f, value |-> v])]

add_effect(act, f, v) ==
    [act EXCEPT !.effects = Append(@, [timing |-> None, fluent |-> f, value |-> v])]

set_cost(act, c) == [act EXCEPT !.cost = c]

\* _convert_goal, lines 228-236: the timing is converted and dropped
_convert_goal(cur, m, problem) == _convert_expression(cur, m.goal, problem)

\* _convert_initial_state, lines 224-226
_convert_initial_state(cur, m, problem) ==
    LET f == _convert_expression(cur, m.fluent, problem)
        v == _convert_expression(cur, m.value, problem)
    IN  IF IsRaise(f) THEN f
        ELSE IF IsRaise(v) THEN v
        ELSE [tag |-> "tuple", fluent |-> f, value |-> v]

ActionMsg(name, parameters, duration, conditions, effects, cost) ==
    [tag |-> "Action", name |-> name, parameters |-> parameters,
     has_duration |-> duration # None, duration |-> duration,
     conditions |-> conditions, effects |-> effects,
     has_cost |-> cost # None, cost |-> cost]

DurationMsg(lower, upper) == [lower |-> lower, upper |-> upper]

ConditionMsg(cond, span) == [cond |-> cond, has_span |-> span # None, span |-> span]

ActionEffectMsg(effect, occurence_time) ==
    [effect |-> effect, has_occurence_time |-> occurence_time # None,
     occurence_time |-> occurence_time]

GoalMsg(goal) == [tag |-> "Goal", goal |-> goal]

AssignmentMsg(f, v) == [tag |-> "Assignment", fluent |-> f, value |-> v]

\* the atoms of an expression message in the order _convert_expression converts
\* them: its own atom, then its children's
RECURSIVE AtomsOf(_)
AtomsOf(e) ==
    LET RECURSIVE Children(_)
        Children(l) == IF l = <<>> THEN <<>> ELSE AtomsOf(Head(l)) \o Children(Tail(l))
    IN  <<e.atom>> \o Children(e.list)

\* what _convert_atom returned for each symbol atom, with the scope it read,
\* up to the first one that raised
RECURSIVE Resolutions(_, _, _)
Resolutions(cur, atoms, problem) ==
    IF atoms = <<>> THEN <<>>
    ELSE LET a == Head(atoms)
             r == _convert_atom(cur, a, problem)
             rec == IF a.field = "symbol"
                    THEN <<[symbol |-> a.symbol, scope |-> cur, result |-> r]>>
                    ELSE <<>>
         IN  IF IsRaise(r) THEN rec
             ELSE rec \o Resolutions(cur, Tail(atoms), problem)

ExpressionResolutions(cur, e, problem) == Resolutions(cur, AtomsOf(e), problem)

EffectResolutions(cur, m, problem) ==
    ExpressionResolutions(cur, m.fluent, problem)
    \o (IF IsRaise(_convert_expression(cur, m.fluent, problem)) THEN <<>>
        ELSE ExpressionResolutions(cur, m.value, problem)
             \o (IF IsRaise(_convert_expression(cur, m.value, problem))
                    \/ ~m.has_condition
                 THEN <<>>
                 ELSE ExpressionResolutions(cur, m.condition, problem)))

\* where _convert_action goes on after conditions i-1 and effects j-1
AfterEffects(m, j) ==
    IF j <= Len(m.effects) THEN [pc |-> "effects", idx |-> j]
    ELSE IF m.has_cost THEN [pc |-> "cost", idx |-> 0]
    ELSE [pc |-> "return", idx |-> 0]

AfterConditions(m, i) ==
    IF i <= Len(m.conditions) THEN [pc |-> "conditions", idx |-> i]
    ELSE AfterEffects(m, 1)

SetCurrentAction_on_class(scopes, c, ref) == [x \in DOMAIN scopes |-> ref]

\* line 255: self.current_action = action, an attribute of the instance
SetCurrentAction(scopes, c, ref) == [scopes EXCEPT ![c] = ref]

\* convert(m) is called: bookkeeping common to every handler
Called(t, m) ==
    /\ pc[t] = "idle" /\ calls[t] < MaxCalls
    /\ message' = [message EXCEPT ![t] = m]
    /\ calls' = [calls EXCEPT ![t] = @ + 1]
    /\ prev' = [prev EXCEPT ![t] = IF m = message[t] THEN out[t] ELSE None]
    /\ att' = [att EXCEPT ![t] = None]

\* an exception leaves _convert_action, and convert()
Abort(t, exc) ==
    /\ out' = [out EXCEPT ![t] = Returned(exc)]
    /\ pc' = [pc EXCEPT ![t] = "idle"]
    /\ action' = [action EXCEPT ![t] = None]
    /\ idx' = [idx EXCEPT ![t] = 0]

Goto(t, nxt) ==
    /\ pc' = [pc EXCEPT ![t] = nxt.pc]
    /\ idx' = [idx EXCEPT ![t] = nxt.idx]

\* lines 243-253: the parameters, the action object and its duration
Construct(t, m) ==
    /\ m.tag = "Action"
    /\ Called(t, m)
    /\ LET cur == current_action[conv[t]]
           id == [thread |-> t, call |-> calls[t] + 1]
           parameters == convert_parameters(m.parameters, OrderedDict(<<>>))
           d == _convert_duration(cur, m.duration, Template)
           converts == m.has_duration /\ ~IsRaise(parameters)
       IN  /\ res' = [res EXCEPT ![t] =
                        [phase |-> "duration", owner |-> id,
                         log |-> IF converts
                                 THEN ExpressionResolutions(cur, m.duration.lower, Template)
                                      \o (IF IsRaise(_convert_expression(
                                                 cur, m.duration.lower, Template))
                                          THEN <<>>
                                          ELSE ExpressionResolutions(
                                                   cur, m.duration.upper, Template))
                                 ELSE <<>>]]
           /\ IF IsRaise(parameters) THEN Abort(t, parameters)
              ELSE IF m.has_duration /\ IsRaise(d) THEN Abort(t, d)
              ELSE /\ action' = [action EXCEPT ![t] =
                        [id |-> id,
                         obj |-> IF m.has_duration
                                 THEN set_duration_constraint(
                                          DurativeAction(m.name, parameters), d)
                                 ELSE InstantaneousAction(m.name, parameters)]]
                   /\ pc' = [pc EXCEPT ![t] = "set_current"]
                   /\ out' = [out EXCEPT ![t] = None]
                   /\ idx' = idx
    /\ UNCHANGED <<call, ret, current_action, conv, api>>

\* line 255
SetCurrent(t) ==
    /\ pc[t] = "set_current"
    /\ current_action' =
           SetCurrentAction(current_action, conv[t],
                            ActionRef(action[t].id, action[t].obj))
    /\ Goto(t, AfterConditions(message[t], 1))
    /\ UNCHANGED <<call, ret, conv, message, action, out, prev, calls, res, att, api>>

\* lines 256-263, one condition
ConvertCondition(t) ==
    /\ pc[t] = "conditions"
    /\ LET m == message[t]
           cond == m.conditions[idx[t]]
           cur == current_action[conv[t]]
           exp == _convert_expression(cur, cond.cond, Template)
           act == action[t].obj
           seen == [what |-> "condition", index |-> idx[t], kind |-> act.kind,
                    present |-> cond.has_span, how |-> "skipped"]
       IN  /\ res' = [res EXCEPT ![t] =
                        [phase |-> "conditions", owner |-> action[t].id,
                         log |-> ExpressionResolutions(cur, cond.cond, Template)]]
           /\ IF IsRaise(exp)
              THEN Abort(t, exp) /\ att' = [att EXCEPT ![t] = None] /\ api' = api
              ELSE /\ Goto(t, AfterConditions(m, idx[t] + 1))
                   /\ out' = out
                   /\ IF exp = None                                   \* continue
                      THEN /\ action' = action
                           /\ att' = [att EXCEPT ![t] = seen]
                           /\ api' = api
                      \* action.add_condition is looked up before its arguments
                      \* are evaluated; the span is converted by lines 312-348,
                      \* which raise nothing on a span that is not set
                      ELSE \E has \in hasattr(api, act.kind, "add_condition") :
                           /\ api' = Known(api, act.kind, "add_condition", has)
                           /\ IF has
                              THEN /\ action' = [action EXCEPT ![t].obj =
                                        add_condition(act,
                                            _convert_timed_interval(
                                                IF cond.has_span THEN cond.span
                                                ELSE DefaultTimeInterval),
                                            exp)]
                                   /\ att' = [att EXCEPT ![t] =
                                                [seen EXCEPT !.how = "timed"]]
                              ELSE /\ action' = [action EXCEPT ![t].obj =
                                        add_precondition(act, exp)]
                                   /\ att' = [att EXCEPT ![t] =
                                                [seen EXCEPT !.how = "plain"]]
    /\ UNCHANGED <<call, ret, current_action, conv, message, prev, calls>>

\* lines 265-276, one effect
ConvertEffect(t) ==
    /\ pc[t] = "effects"
    /\ LET m == message[t]
           eff == m.effects[idx[t]]
           cur == current_action[conv[t]]
           exp == _convert_effect(cur, eff.effect, Template)
           act == action[t].obj
           seen == [what |-> "effect", index |-> idx[t], kind |-> act.kind,
                    present |-> eff.has_occurence_time, how |-> "skipped"]
       IN  /\ res' = [res EXCEPT ![t] =
                        [phase |-> "effects", owner |-> action[t].id,
                         log |-> EffectResolutions(cur, eff.effect, Template)]]
           /\ IF IsRaise(exp)
              THEN Abort(t, exp) /\ att' = [att EXCEPT ![t] = None] /\ api' = api
              ELSE /\ Goto(t, AfterEffects(m, idx[t] + 1))
                   /\ out' = out
                   /\ IF exp.fluent = None \/ exp.value = None       \* continue
                      THEN /\ action' = action
                           /\ att' = [att EXCEPT ![t] = seen]
                           /\ api' = api
                      ELSE \E has \in hasattr(api, act.kind, "add_timed_effect") :
                           /\ api' = Known(api, act.kind, "add_timed_effect", has)
                           /\ IF has
                              THEN /\ action' = [action EXCEPT ![t].obj =
                                        add_timed_effect(act,
                                            _convert_timing(
                                                IF eff.has_occurence_time
                                                THEN eff.occurence_time
                                                ELSE DefaultTiming),
                                            exp.fluent, exp.value)]
                                   /\ att' = [att EXCEPT ![t] =
                                                [seen EXCEPT !.how = "timed"]]
                              ELSE /\ action' = [action EXCEPT ![t].obj =
                                        add_effect(act, exp.fluent, exp.value)]
                                   /\ att' = [att EXCEPT ![t] =
                                                [seen EXCEPT !.how = "plain"]]
    /\ UNCHANGED <<call, ret, current_action, conv, message, prev, calls>>

\* lines 278-279
ConvertCost(t) ==
    /\ pc[t] = "cost"
    /\ LET cur == current_action[conv[t]]
           c == _convert_expression(cur, message[t].cost, Template)
       IN  /\ res' = [res EXCEPT ![t] =
                        [phase |-> "cost", owner |-> action[t].id,
                         log |-> ExpressionResolutions(cur, message[t].cost, Template)]]
           /\ IF IsRaise(c) THEN Abort(t, c)
              ELSE /\ action' = [action EXCEPT ![t].obj = set_cost(@, c)]
                   /\ pc' = [pc EXCEPT ![t] = "return"]
                   /\ UNCHANGED <<out, idx>>
    /\ UNCHANGED <<call, ret, current_action, conv, message, prev, calls, att, api>>

\* line 281
Return(t) ==
    /\ pc[t] = "return"
    /\ out' = [out EXCEPT ![t] = Returned(action[t].obj)]
    /\ pc' = [pc EXCEPT ![t] = "idle"]
    /\ action' = [action EXCEPT ![t] = None]
    /\ UNCHANGED <<call, ret, current_action, conv, message, idx, prev, calls, res,
                   att, api>>

\* lines 228-236, the whole handler
ConvertGoal(t, m) ==
    /\ m.tag = "Goal"
    /\ Called(t, m)
    /\ LET cur == current_action[conv[t]]
       IN  /\ out' = [out EXCEPT ![t] = Returned(_convert_goal(cur, m, Template))]
           /\ res' = [res EXCEPT ![t] =
                        [phase |-> "goal", owner |-> None,
                         log |-> ExpressionResolutions(cur, m.goal, Template)]]
    /\ UNCHANGED <<call, ret, current_action, conv, pc, action, idx, api>>

\* lines 224-226, the whole handler
ConvertInitialState(t, m) ==
    /\ m.tag = "Assignment"
    /\ Called(t, m)
    /\ LET cur == current_action[conv[t]]
       IN  /\ out' = [out EXCEPT ![t] =
                        Returned(_convert_initial_state(cur, m, Template))]
           /\ res' = [res EXCEPT ![t] =
                        [phase |-> "initial_state", owner |-> None,
                         log |-> ExpressionResolutions(cur, m.fluent, Template)
                                 \o (IF IsRaise(_convert_expression(cur, m.fluent, Template))
                                     THEN <<>>
                                     ELSE ExpressionResolutions(cur, m.value, Template))]]
    /\ UNCHANGED <<call, ret, current_action, conv, pc, action, idx, api>>

---------------------------------------------------------------------------
(* The messages the callers send                                           *)

Span == TimeIntervalMsg(TimingMsg(0, "START"), TimingMsg(0, "END"))

AtStart == TimingMsg(0, "START")

Assign(f, v) == EffectMsg("ASSIGN", FluentSymbol(f), v, FALSE, Var("p"))

ParameterLists ==
    {<<ParameterMsg("p", S_loc)>>,
     <<ParameterMsg("q", S_loc), ParameterMsg("p", S_loc)>>,
     <<ParameterMsg("p", S_loc), ParameterMsg("p", S_bool)>>,
     <<ParameterMsg("x", S_loc), ParameterMsg("q", S_real_0_5)>>}

DurationMsgs == {None, DurationMsg(Var("p"), Var("p"))}

\* conditions, effects and cost of an action message
Bodies ==
    {[conditions |-> <<>>, effects |-> <<>>, cost |-> None],
     [conditions |-> <<ConditionMsg(Var("p"), Span), ConditionMsg(Var("p"), None)>>,
      effects |-> <<ActionEffectMsg(Assign("f", Var("p")), AtStart),
                    ActionEffectMsg(Assign("f", Var("o")), None)>>,
      cost |-> FluentSymbol("f")],
     [conditions |->
          <<ConditionMsg(Expression("FUNCTION_SYMBOL", S_bool, AtomSymbol("f"), <<>>),
                         None),
            ConditionMsg(Expression("PARAMETER", S_loc, AtomSymbol("q"), <<>>), Span)>>,
      effects |->
          <<ActionEffectMsg(
                Assign("f", Expression("FUNCTION_APPLICATION", S_bool, AtomNone, <<>>)),
                None)>>,
      cost |-> None]}

ActionMsgs ==
    {ActionMsg("move", ps, d, b.conditions, b.effects, b.cost)
        : ps \in ParameterLists, d \in DurationMsgs, b \in Bodies}

OutsideMsgs ==
    {GoalMsg(Var("p")), GoalMsg(Var("q")),
     AssignmentMsg(FluentSymbol("f"), Var("o")),
     AssignmentMsg(FluentSymbol("f"), Var("p"))}

\* two threads send actions that differ in their parameters
ConcurrentMsgs ==
    {ActionMsg("move", <<ParameterMsg("p", S_loc)>>, None,
               <<ConditionMsg(Var("q"), None)>>, <<>>, None),
     ActionMsg("load", <<ParameterMsg("q", S_loc)>>, None,
               <<>>, <<ActionEffectMsg(Assign("f", Var("q")), None)>>, None)}

Inputs ==
    IF Cardinality(DOMAIN conv) = 1 THEN ActionMsgs \cup OutsideMsgs
    ELSE ConcurrentMsgs

DoConstruct == \E t \in DOMAIN conv : \E m \in Inputs : Construct(t, m)

DoSetCurrent == \E t \in DOMAIN conv : SetCurrent(t)

DoConvertCondition == \E t \in DOMAIN conv : ConvertCondition(t)

DoConvertEffect == \E t \in DOMAIN conv : ConvertEffect(t)

DoConvertCost == \E t \in DOMAIN conv : ConvertCost(t)

DoReturn == \E t \in DOMAIN conv : Return(t)

DoConvertGoal == \E t \in DOMAIN conv : \E m \in Inputs : ConvertGoal(t, m)

DoConvertInitialState ==
    \E t \in DOMAIN conv : \E m \in Inputs : ConvertInitialState(t, m)

Next ==
    \/ DoConstruct
    \/ DoSetCurrent
    \/ DoConvertCondition
    \/ DoConvertEffect
    \/ DoConvertCost
    \/ DoReturn
    \/ DoConvertGoal
    \/ DoConvertInitialState

\* one thread, one converter
Init ==
    /\ call = None
    /\ ret = None
    /\ conv = [t \in {1} |-> 1]
    /\ current_action = [c \in {1} |-> None]
    /\ api = ApiUnknown
    /\ Idle({1})

Spec == Init /\ [][Next]_vars

\* two threads that convert action messages, on one converter or on one each
ConcurrentInit ==
    /\ call = None
    /\ ret = None
    /\ conv \in {[t \in {1, 2} |-> 1], [t \in {1, 2} |-> t]}
    /\ current_action = [c \in {1, 2} |-> None]
    /\ api = ApiUnknown
    /\ Idle({1, 2})

ConcurrentNext ==
    \/ DoConstruct
    \/ DoSetCurrent
    \/ DoConvertCondition
    \/ DoConvertEffect
    \/ DoReturn

ConcurrentSpec == ConcurrentInit /\ [][ConcurrentNext]_vars

---------------------------------------------------------------------------
(* Claims on single handlers, checked under HandlerSpec                    *)

ObjectNames == {o.name : o \in Template.objects}

FluentNames == {f.name : f \in Template.fluents}

ParameterNames(ref) == {ref.parameters.items[i].key : i \in 1..Len(ref.parameters.items)}

\* C2: a symbol atom is resolved by a fixed precedence: an object of the problem
\* gives the object, even when the active action has a parameter of that name;
\* otherwise a parameter of the active action gives a parameter expression;
\* otherwise the fluent table decides, and a symbol in none of the three tables
\* is the error UnknownSymbol, with or without an active action.
C2_AtomPrecedence ==
    (call.fn = "_convert_atom" /\ call.msg.field = "symbol" /\ ret # None) =>
        LET s   == call.msg.symbol
            cur == current_action[1]
            v   == ret.value
        IN  IF s \in ObjectNames
            THEN v.tag = "Object" /\ v.name = s
            ELSE IF cur # None /\ s \in ParameterNames(cur)
            THEN /\ v.tag = "FNode" /\ v.node_type = "PARAM_EXP"
                 /\ v.payload.tag = "ActionParameter" /\ v.payload.name = s
            ELSE IF s \in FluentNames
            THEN v.tag = "Fluent" /\ v.name = s
            ELSE v = Raise("UnknownSymbol")

\* C2 witness: the symbol x, an object and a parameter of the active action, was
\* resolved to the object, and so was decided by the first rule
C2_ObjectWinsReached ==
    /\ call.fn = "_convert_atom" /\ call.msg.field = "symbol" /\ ret # None
    /\ current_action[1] # None
    /\ call.msg.symbol \in ObjectNames \cap ParameterNames(current_action[1])
    /\ ret.value.tag = "Object"

\* C5: integer[lo, hi] decodes to an Integer type whose lower bound is lo when lo
\* is finite and absent when lo is -inf, and whose upper bound is hi when hi is
\* finite and absent when hi is inf, each bound decoded on its own.
C5_IntegerBoundsDecoded ==
    (call.fn = "_convert_type_declaration" /\ call.family = "integer" /\ ret # None) =>
        ret.value = IntType(call.lo, call.hi)

\* C6: the rebuilt Effect has the kind of the message's kind field, the rebuilt
\* fluent and value, the rebuilt guard when the message has a condition and no
\* guard otherwise; the kind is never stored in the guard position.
C6_EffectKindAndGuard ==
    (/\ call.fn = "_convert_effect" /\ call.msg.kind \in EffectKinds
     /\ ret # None /\ ret.value.tag = "Effect") =>
        LET m == call.msg
            e == ret.value
            cur == current_action[1]
        IN  /\ e.kind = (CASE m.kind = "ASSIGN" -> ASSIGN
                           [] m.kind = "INCREASE" -> INCREASE
                           [] m.kind = "DECREASE" -> DECREASE)
            /\ e.fluent = _convert_expression(cur, m.fluent, Template)
            /\ e.value = _convert_expression(cur, m.value, Template)
            /\ e.condition = IF m.has_condition
                             THEN _convert_expression(cur, m.condition, Template)
                             ELSE None

NodeTypeOf(m) ==
    CASE m.kind = "CONSTANT" /\ m.type = S_bool -> "BOOL_CONSTANT"
      [] m.kind = "CONSTANT" /\ m.type = S_int -> "INT_CONSTANT"
      [] m.kind = "CONSTANT" /\ m.type = S_real -> "REAL_CONSTANT"
      [] m.kind = "PARAMETER" -> "PARAM_EXP"
      [] m.kind = "FLUENT_SYMBOL" -> "FLUENT_EXP"
      [] m.kind = "STATE_VARIABLE" -> "OBJECT_EXP"
      [] OTHER -> "none"

\* C8: by the node's kind, _convert_expression returns a node of the matching
\* kind (CONSTANT of type bool, int or real, PARAMETER, FLUENT_SYMBOL,
\* STATE_VARIABLE), or the "unsupported" result without raising (FUNCTION_SYMBOL,
\* FUNCTION_APPLICATION), or fails with UnknownExpressionKind (any other kind);
\* a CONSTANT of another type is an error too. An unknown kind never gives the
\* result an unsupported kind gives.
C8_ExpressionOutcomes ==
    (call.fn = "_convert_expression" /\ ret # None) =>
        LET m == call.msg
            v == ret.value
            raised == /\ IsRaise(v)
                      /\ v.exc \in {"UnknownSymbol", "AssertionError"}
        IN  \/ raised       \* the atom, a child or the fluent check failed first
            \/ IF m.kind \in {"FUNCTION_SYMBOL", "FUNCTION_APPLICATION"}
               THEN v = None
               ELSE IF m.kind \notin ExpressionKinds
               THEN v = Raise("UnknownExpressionKind")
               ELSE IF NodeTypeOf(m) = "none"
               THEN IsRaise(v)
               ELSE v.tag = "FNode" /\ v.node_type = NodeTypeOf(m)

---------------------------------------------------------------------------
(* Claims on _convert_action and on the scope, checked under Spec (one     *)
(* thread) and ConcurrentSpec (two threads)                                *)

Threads == DOMAIN conv

IsParameterExp(v) == v.tag = "FNode" /\ v.node_type = "PARAM_EXP"

\* the last convert() of thread t was given an action message and returned an
\* action
ReturnedAction(t) ==
    /\ pc[t] = "idle" /\ out[t] # None
    /\ message[t].tag = "Action" /\ out[t].value.tag = "Action"

\* C1: once _convert_action has returned, an atom converted outside any action
\* (a goal, an initial-state assignment) is never resolved to a parameter of an
\* action converted before: a symbol that is no object goes to the fluent table.
C1_NoScopeOutsideAction ==
    \A t \in Threads :
        res[t].phase \in {"goal", "initial_state"} =>
            \A i \in 1..Len(res[t].log) :
                LET r == res[t].log[i]
                IN  /\ ~IsParameterExp(r.result)
                    /\ r.symbol \notin ObjectNames =>
                           IF r.symbol \in FluentNames
                           THEN r.result.tag = "Fluent" /\ r.result.name = r.symbol
                           ELSE r.result = Raise("UnknownSymbol")

\* C3: converting the same message twice on the same converter, against the
\* same template, gives equal results.
C3_SameMessageSameResult ==
    \A t \in Threads :
        (pc[t] = "idle" /\ out[t] # None /\ prev[t] # None) => out[t] = prev[t]

DistinctNames(params) ==
    \A i, j \in 1..Len(params) : i # j => params[i].name # params[j].name

KindFollowsDuration(m, a) ==
    /\ a.kind = "DurativeAction" <=> m.has_duration
    /\ a.kind = "InstantaneousAction" <=> ~m.has_duration
    /\ m.has_duration => a.duration.tag = "DurationInterval"
    /\ ~m.has_duration => a.duration = None
    /\ a.name = m.name

ParametersInMessageOrder(m, a) ==
    /\ Len(a.parameters.items) = Len(m.parameters)
    /\ \A i \in 1..Len(m.parameters) :
           /\ i <= Len(a.parameters.items)
           /\ a.parameters.items[i].key = m.parameters[i].name
           /\ a.parameters.items[i].value =
                  ActionParameter(m.parameters[i].name,
                                  convert_type_str(m.parameters[i].type))

C7_TimedIffPresent ==
    \A t \in Threads :
        (att[t] # None /\ att[t].how # "skipped") =>
            (att[t].how = "timed" <=> att[t].present)

\* C10: with one thread, every atom of a sub-message of action A (duration,
\* conditions, effects, cost) is resolved with A as the current action: a symbol
\* that names a parameter of A and no object gives A's parameter.
C10_ScopeIsOwnAction ==
    \A t \in Threads :
        res[t].phase \in {"duration", "conditions", "effects", "cost"} =>
            \A i \in 1..Len(res[t].log) :
                LET r == res[t].log[i]
                IN  /\ r.scope # None
                    /\ r.scope.id = res[t].owner
                    /\ (r.symbol \in ParameterNames(r.scope)
                            /\ r.symbol \notin ObjectNames) =>
                           /\ IsParameterExp(r.result)
                           /\ r.result.payload.name = r.symbol

\* an atom of the conditions or effects of the action thread t converts was
\* resolved with another action as the current action
ForeignScope(t, i) ==
    LET r == res[t].log[i]
    IN  /\ res[t].phase \in {"conditions", "effects"}
        /\ (r.scope = None \/ r.scope.id # res[t].owner)

\* C9: an atom of A's conditions or effects is resolved against another action
\* only when another thread converts on the same converter instance; two
\* conversions on two instances never disturb each other.
C9_ForeignScopeOnlyWhenShared ==
    \A t \in Threads :
        \A i \in 1..Len(res[t].log) :
            ForeignScope(t, i) => \E u \in Threads : u # t /\ conv[u] = conv[t]

\* C9 witness: on a shared instance, an atom of A whose symbol names a parameter
\* of B, no parameter of A and no object was resolved to B's parameter
C9_ForeignParameterReached ==
    \E t \in Threads :
        \E i \in 1..Len(res[t].log) :
            LET r == res[t].log[i]
            IN  /\ ForeignScope(t, i)
                /\ r.scope # None
                /\ r.symbol \in ParameterNames(r.scope) \ ObjectNames
                /\ \A k \in 1..Len(message[t].parameters) :
                       message[t].parameters[k].name # r.symbol
                /\ IsParameterExp(r.result)
                /\ r.result.payload = parameter(r.scope, r.symbol)

====
